---- MODULE Spec2Model ----
(***************************************************************************)
(* A model of fs_pach/_pachfs.py: the PACHFS filesystem adapter over a     *)
(* Pachyderm repository, and the PachFile handle it returns.               *)
(*                                                                         *)
(* Strings (paths, keys, URIs, modes) are sequences of one-character       *)
(* strings, so that the string arithmetic of the code (strip, replace,     *)
(* format, split) is computed and not assumed.  File contents are          *)
(* sequences of bytes.                                                     *)
(*                                                                         *)
(* The Pachyderm cluster is the environment.  It is modelled as a map from *)
(* cleaned absolute file paths to contents; directories are derived from   *)
(* the paths of the files (PFS stores no directory objects).  A commit     *)
(* stages operations and applies them as a unit when it is finished.       *)
(***************************************************************************)
EXTENDS Integers, Sequences, FiniteSets, TLC

\* ------------------------------------------------------------------ bounds

\* longest file content, in bytes
MaxLen == 1
\* number of calls on paths in one behaviour
MaxOps == 2
\* number of calls in one behaviour of a caller that opens and uses a PachFile
MaxFileOps == 3

\* ------------------------------------------------------------- characters

Str1(a) == <<a>>
Str2(a, b) == <<a, b>>
SLASH == Str1("/")
COLON == Str1(":")
EMPTYNAME == <<".", "e", "m", "p", "t", "y">>

\* The path segments of the model, in the backend's listing order.
SegSeq == <<EMPTYNAME, Str1("a"), Str1("r"), Str1("x"), Str1("y")>>

\* Bind(e, LAMBDA x : body) is "LET x == e IN body" with e written once.
Bind(x, F(_)) == F(x)
Bind2(x, y, F(_, _)) == F(x, y)

\* ------------------------------------------------------- python str methods

startswith(s, p) == Len(s) >= Len(p) /\ SubSeq(s, 1, Len(p)) = p

endswith(s, p) == Len(s) >= Len(p) /\ SubSeq(s, Len(s) - Len(p) + 1, Len(s)) = p

contains(s, p) == \E i \in 1..(Len(s) - Len(p) + 1) : SubSeq(s, i, i + Len(p) - 1) = p

\* str.lstrip(chars): chars is a set of characters
RECURSIVE lstrip(_, _)
lstrip(s, chars) ==
    IF s # <<>> /\ Head(s) \in chars THEN lstrip(Tail(s), chars) ELSE s

\* str.rstrip(chars)
RECURSIVE rstrip(_, _)
rstrip(s, chars) ==
    IF s # <<>> /\ s[Len(s)] \in chars
    THEN rstrip(SubSeq(s, 1, Len(s) - 1), chars)
    ELSE s

CharsOf(s) == {s[i] : i \in 1..Len(s)}

\* str.split(sep) for a non-empty separator
RECURSIVE split(_, _)
split(s, sep) ==
    IF ~contains(s, sep)
    THEN <<s>>
    ELSE LET i == CHOOSE i \in 1..(Len(s) - Len(sep) + 1) :
                    /\ SubSeq(s, i, i + Len(sep) - 1) = sep
                    /\ \A j \in 1..(i - 1) : SubSeq(s, j, j + Len(sep) - 1) # sep
         IN  <<SubSeq(s, 1, i - 1)>> \o split(SubSeq(s, i + Len(sep), Len(s)), sep)

\* sep.join(parts)
RECURSIVE join(_, _)
join(parts, sep) ==
    IF parts = <<>> THEN <<>>
    ELSE IF Len(parts) = 1 THEN parts[1]
    ELSE parts[1] \o sep \o join(Tail(parts), sep)

\* str.replace(old, new) for a non-empty old
replace(s, old, new) == join(split(s, old), new)

\* str.rsplit(sep, 1) for a one-character separator that occurs in s
rsplit1(s, c) ==
    LET i == CHOOSE i \in 1..Len(s) :
                 s[i] = c /\ \A j \in (i + 1)..Len(s) : s[j] # c
    IN  <<SubSeq(s, 1, i - 1), SubSeq(s, i + 1, Len(s))>>

\* ------------------------------------------------------------------ fs.path

\* fs.path._requires_normalization: a "." or ".." component, or "//"
requires_normalization(path) ==
    \/ contains(path, Str2("/", "/"))
    \/ Bind(split(path, SLASH), LAMBDA comps :
           \E i \in 1..Len(comps) : comps[i] \in {Str1("."), Str2(".", ".")})

\* the component loop of fs.path.normpath (a ".." with nothing to pop raises
\* IllegalBackReference in the code; no input of the model has one)
RECURSIVE norm_components(_, _)
norm_components(comps, acc) ==
    IF comps = <<>> THEN acc
    ELSE LET c == Head(comps) IN
         IF c = Str2(".", ".")
         THEN norm_components(Tail(comps),
                              IF acc = <<>> THEN acc ELSE SubSeq(acc, 1, Len(acc) - 1))
         ELSE IF c = Str1(".") \/ c = <<>>
         THEN norm_components(Tail(comps), acc)
         ELSE norm_components(Tail(comps), Append(acc, c))

normpath(path) ==
    IF path = <<>> \/ path = SLASH THEN path
    ELSE IF ~requires_normalization(path) THEN rstrip(path, {"/"})
    ELSE (IF startswith(path, SLASH) THEN SLASH ELSE <<>>)
         \o join(norm_components(split(path, SLASH), <<>>), SLASH)

relpath(path) == lstrip(path, {"/"})

abspath(path) == IF startswith(path, SLASH) THEN path ELSE SLASH \o path

forcedir(path) == IF endswith(path, SLASH) THEN path ELSE path \o SLASH

\* fs.path.split
pathsplit(path) ==
    IF ~contains(path, SLASH) THEN <<<<>>, path>>
    ELSE Bind(rsplit1(path, "/"), LAMBDA s :
             <<IF s[1] = <<>> THEN SLASH ELSE s[1], s[2]>>)

dirname(path) == pathsplit(path)[1]

basename(path) == pathsplit(path)[2]

\* FS.validatepath: the absolute normalized form of a path
validatepath(path) == abspath(normpath(path))

\* --------------------------------------------------------- the repository

\* "{project}/{repo}@" and the branch of the format strings of the code
REPO == <<"p", "/", "q", "@">>
BRANCH == Str1("m")

\* The URI the code formats for a request: "{project}/{repo}@{branch}" and
\* whatever the format string puts after the branch.
Uri(rest) == REPO \o BRANCH \o rest

\* pfs.File.from_uri: "[project/]repo@branch-or-commit[:path/in/pfs]"
from_uri(uri) ==
    Bind(SubSeq(uri, Len(REPO) + 1, Len(uri)), LAMBDA after :
        IF contains(after, COLON)
        THEN Bind(CHOOSE i \in 1..Len(after) :
                      after[i] = ":" /\ \A j \in 1..(i - 1) : after[j] # ":",
                  LAMBDA i : [branch |-> SubSeq(after, 1, i - 1),
                              path |-> SubSeq(after, i + 1, Len(after))])
        ELSE [branch |-> after, path |-> <<>>])

\* The backend stores cleaned absolute paths: one leading slash, no empty
\* component, no trailing slash.
Clean(path) == SLASH \o join(norm_components(split(path, SLASH), <<>>), SLASH)

ChildPath(p, seg) == IF p = SLASH THEN SLASH \o seg ELSE p \o SLASH \o seg

IsFileB(fs, p) == p \in DOMAIN fs

\* a directory exists exactly when a file lies under it; the root always does
IsDirB(fs, p) ==
    \/ p = SLASH
    \/ \E k \in DOMAIN fs : k # p /\ startswith(k, p \o SLASH)

ExistsB(fs, p) == IsFileB(fs, p) \/ IsDirB(fs, p)

\* pfs.FileType.DIR, the value _info_from_object compares with
FILETYPE_DIR == 2

\* pfs.FileInfo of a file or of a directory (a directory's path ends in "/")
FileInfo(fs, p) ==
    IF IsFileB(fs, p)
    THEN [file |-> [path |-> p], fileType |-> FILETYPE_DIR - 1, sizeBytes |-> Len(fs[p])]
    ELSE [file |-> [path |-> p \o SLASH], fileType |-> FILETYPE_DIR, sizeBytes |-> 0]

RECURSIVE ChildInfos(_, _, _)
ChildInfos(fs, p, i) ==
    IF i > Len(SegSeq) THEN <<>>
    ELSE Bind(ChildPath(p, SegSeq[i]), LAMBDA c :
             (IF ExistsB(fs, c) THEN <<FileInfo(fs, c)>> ELSE <<>>)
             \o ChildInfos(fs, p, i + 1))

\* The file a request URI names on the branch of the filesystem:
\* [known (the branch exists), path (cleaned)].
Resolve(uri) ==
    Bind(from_uri(uri), LAMBDA f : [known |-> f.branch = BRANCH, path |-> Clean(f.path)])

\* "up", or the failure with which the backend answers every request:
\* an RpcError by its status, or an exception that is not an RpcError
VARIABLE backend

Faults == {"Rpc403", "Rpc500", "ConnectionError"}

\* client.pfs.list_file: a file lists as itself, a directory as its children,
\* anything else is the backend's not-found error.
list_file(fs, uri) ==
    Bind(Resolve(uri), LAMBDA f :
        IF backend # "up" THEN [err |-> backend, val |-> <<>>]
        ELSE IF ~f.known THEN [err |-> "Rpc404", val |-> <<>>]
        ELSE IF IsFileB(fs, f.path) THEN [err |-> "ok", val |-> <<FileInfo(fs, f.path)>>]
        ELSE IF IsDirB(fs, f.path) THEN [err |-> "ok", val |-> ChildInfos(fs, f.path, 1)]
        ELSE [err |-> "Rpc404", val |-> <<>>])

\* client.pfs.get_file: the content as a stream of BytesValue messages; an
\* empty file streams nothing.  Only a file can be fetched.
get_file(fs, uri) ==
    Bind(Resolve(uri), LAMBDA f :
        IF backend # "up" THEN [err |-> backend, val |-> <<>>]
        ELSE IF ~f.known THEN [err |-> "Rpc404", val |-> <<>>]
        ELSE IF IsFileB(fs, f.path)
        THEN [err |-> "ok",
              val |-> IF fs[f.path] = <<>> THEN <<>>
                      ELSE <<[type |-> "BytesValue", value |-> fs[f.path]]>>]
        ELSE IF IsDirB(fs, f.path) THEN [err |-> "Rpc500", val |-> <<>>]
        ELSE [err |-> "Rpc404", val |-> <<>>])

\* a put is refused where it would make a path both a file and a directory
PutConflict(fs, p) ==
    \/ IsDirB(fs, p)
    \/ \E k \in DOMAIN fs : k # p /\ startswith(p, k \o SLASH)

\* a put that appends to what the path holds
StorePut_append(fs, p, data) ==
    [k \in DOMAIN fs \cup {p} |->
        IF k = p THEN (IF p \in DOMAIN fs THEN fs[p] ELSE <<>>) \o data ELSE fs[k]]

StorePut(fs, p, data) == [k \in DOMAIN fs \cup {p} |-> IF k = p THEN data ELSE fs[k]]

StoreDelete(fs, p) ==
    [k \in {k \in DOMAIN fs : k # p /\ ~startswith(k, p \o SLASH)} |-> fs[k]]

\* put_file_from_bytes, put_file_from_file: [err, fs]
ApplyPut(fs, p, data) ==
    IF PutConflict(fs, p) THEN [err |-> "Rpc500", fs |-> fs]
    ELSE [err |-> "ok", fs |-> StorePut(fs, p, data)]

\* copy_file of the file a URI names: [err, fs]
ApplyCopy(fs, f, d) ==
    IF ~f.known THEN [err |-> "BadBranch", fs |-> fs]
    ELSE IF ~IsFileB(fs, f.path) THEN [err |-> "Rpc404", fs |-> fs]
    ELSE ApplyPut(fs, d, fs[f.path])

\* An operation as the backend stages it in an open commit: it resolves the
\* path, and the source of a copy, when the request arrives.
\*   put_file_*  [kind |-> "put", path, data]
\*   delete_file [kind |-> "delete", path]   (the path and all below it)
\*   copy_file   [kind |-> "copy", path (the destination), src (a URI)]
Stage(op) ==
    IF op.kind = "copy"
    THEN [kind |-> "copy", path |-> Clean(op.path), src |-> Resolve(op.src)]
    ELSE [op EXCEPT !.path = Clean(op.path)]

\* One staged operation applied to the store: [err, fs].
ApplyOp(fs, op) ==
    IF backend # "up" THEN [err |-> backend, fs |-> fs]
    ELSE IF op.kind = "put" THEN ApplyPut(fs, op.path, op.data)
    ELSE IF op.kind = "delete" THEN [err |-> "ok", fs |-> StoreDelete(fs, op.path)]
    ELSE ApplyCopy(fs, op.src, op.path)

\* Finishing a commit applies its staged operations as a unit: all, or on
\* the first refusal none.
RECURSIVE ApplyOps(_, _, _)
ApplyOps(orig, fs, ops) ==
    IF ops = <<>> THEN [err |-> "ok", fs |-> fs]
    ELSE Bind(ApplyOp(fs, Head(ops)), LAMBDA r :
             IF r.err # "ok" THEN [err |-> r.err, fs |-> orig]
             ELSE ApplyOps(orig, r.fs, Tail(ops)))

\* ------------------------------------------------------------ path <-> key

\* PACHFS.__init__: self._prefix
prefix_of(dir_path) == rstrip(relpath(normpath(dir_path)), {"/"})

\* PACHFS.__init__: the default delimiter
delimiter == SLASH

_path_to_key(prefix, delim, path) ==
    replace(lstrip(prefix \o SLASH \o relpath(normpath(path)), {"/"}), SLASH, delim)

_path_to_dir_key(prefix, delim, path) ==
    replace(lstrip(forcedir(prefix \o SLASH \o relpath(normpath(path))), {"/"}),
            SLASH, delim)

_key_to_path(delim, key) == replace(key, delim, SLASH)

\* ------------------------------------------------------- read-only methods
\* Every method is an operator of the store it runs against and the prefix of
\* the filesystem.  It yields [err, val, reqs]: the error raised ("ok" when it
\* returns), the value returned, and the number of requests sent to the backend.

R(err, val, reqs) == [err |-> err, val |-> val, reqs |-> reqs]

\* What leaves a "with pacherrors(path)" block when err is raised inside it:
\* an RpcError by its status, any other exception as RemoteConnectionError.
pacherrors(err) ==
    CASE err = "ok" -> "ok"
      [] err = "Rpc404" -> "ResourceNotFound"
      [] err = "Rpc403" -> "PermissionDenied"
      [] err = "Rpc500" -> "OperationFailed"
      [] OTHER -> "RemoteConnectionError"

\* _get_object that takes a not-found answer for an empty listing
_get_object_empty(fs, key) ==
    Bind(list_file(fs, Uri(COLON \o rstrip(key, CharsOf(delimiter)))), LAMBDA r1 :
        IF pacherrors(r1.err) = "ResourceNotFound" THEN R("ok", <<>>, 1)
        ELSE R(pacherrors(r1.err), r1.val, 1))

_get_object(fs, key) ==
    Bind2(rstrip(key, CharsOf(delimiter)),
          list_file(fs, Uri(COLON \o rstrip(key, CharsOf(delimiter)))),
          LAMBDA _key, r1 :
              IF pacherrors(r1.err) = "ResourceNotFound"
              THEN Bind(list_file(fs, Uri(COLON \o _key \o delimiter)), LAMBDA r2 :
                       R(pacherrors(r2.err), r2.val, 2))
              ELSE R(pacherrors(r1.err), r1.val, 1))

\* an fs.info.Info, and the None a method returns when it falls off its end
Info(name, is_dir) == [name |-> name, is_dir |-> is_dir, none |-> FALSE]
NoneInfo == [name |-> <<>>, is_dir |-> FALSE, none |-> TRUE]

_info_from_object(obj) == Info(basename(obj.file.path), obj.fileType = FILETYPE_DIR)

\* "for file in obj: ... return Info(...)": the first entry decides
InfoOfListing(o, _path, _key, reqs) ==
    IF o.err # "ok" THEN R(o.err, NoneInfo, reqs + o.reqs)
    ELSE IF o.val = <<>> THEN R("ok", NoneInfo, reqs + o.reqs)
    ELSE IF o.val[1].file.path = _path
    THEN R("ok", _info_from_object(o.val[1]), reqs + o.reqs)
    ELSE R("ok", Info(_key, TRUE), reqs + o.reqs)

\* the listing of the raw path that getinfo asks for when the parent of the
\* path is not the root; an empty one raises inside pacherrors
ParentCheck(fs, _path) ==
    IF dirname(_path) = SLASH THEN R("ok", FALSE, 0)
    ELSE Bind(list_file(fs, Uri(COLON \o _path)), LAMBDA r0 :
             R(pacherrors(IF r0.err = "ok" /\ Len(r0.val) = 0
                          THEN "ResourceNotFound" ELSE r0.err), FALSE, 1))

getinfo(fs, pfx, path) ==
    Bind2(validatepath(path), ParentCheck(fs, validatepath(path)), LAMBDA _path, pre :
        IF pre.err # "ok" THEN R(pre.err, NoneInfo, pre.reqs)
        ELSE IF _path = SLASH THEN R("ok", Info(SLASH, TRUE), pre.reqs)
        ELSE Bind(_path_to_key(pfx, delimiter, _path), LAMBDA _key :
                 InfoOfListing(_get_object(fs, _key), _path, _key, pre.reqs)))

_getinfo(fs, pfx, path) ==
    Bind(validatepath(path), LAMBDA _path :
        IF _path = SLASH THEN R("ok", Info(<<>>, TRUE), 0)
        ELSE Bind2(_path_to_key(pfx, delimiter, _path),
                   _get_object(fs, _path_to_key(pfx, delimiter, _path)),
                   LAMBDA _key, o :
                       IF o.err = "ok" /\ Len(o.val) = 0
                       THEN R("ResourceNotFound", NoneInfo, o.reqs)
                       ELSE InfoOfListing(o, path, _key, 0)))

\* ".is_dir" of what getinfo returned, with ResourceNotFound caught
IsDirOf(g, want) ==
    IF g.err = "ResourceNotFound" THEN R("ok", FALSE, g.reqs)
    ELSE IF g.err # "ok" THEN R(g.err, FALSE, g.reqs)
    ELSE IF g.val.none THEN R("AttributeError", FALSE, g.reqs)
    ELSE R("ok", g.val.is_dir = want, g.reqs)

\* PACHFS.is_dir, and FS.isdir of the base class, which reads the same
isdir(fs, pfx, path) == IsDirOf(getinfo(fs, pfx, validatepath(path)), TRUE)

isfile(fs, pfx, path) == IsDirOf(getinfo(fs, pfx, validatepath(path)), FALSE)

exists(fs, pfx, path) ==
    Bind(validatepath(path), LAMBDA _path :
        IF _path = SLASH THEN R("ok", TRUE, 0)
        ELSE Bind(_get_object(fs, _path_to_dir_key(pfx, delimiter, _path)), LAMBDA o :
                 IF o.err = "ResourceNotFound" THEN R("ok", FALSE, o.reqs)
                 ELSE IF o.err # "ok" THEN R(o.err, FALSE, o.reqs)
                 ELSE R("ok", TRUE, o.reqs)))

\* "if not _directory: if not self.getinfo(_path).is_dir: raise"
EmptyListing(g) ==
    IF g.err # "ok" THEN R(g.err, <<>>, 1 + g.reqs)
    ELSE IF g.val.none THEN R("AttributeError", <<>>, 1 + g.reqs)
    ELSE IF ~g.val.is_dir THEN R("DirectoryExpected", <<>>, 1 + g.reqs)
    ELSE R("ok", <<>>, 1 + g.reqs)

listdir(fs, pfx, path) ==
    Bind2(validatepath(path), list_file(fs, Uri(COLON \o validatepath(path))),
          LAMBDA _path, r :
              IF pacherrors(r.err) # "ok" THEN R(pacherrors(r.err), <<>>, 1)
              ELSE IF r.val # <<>>
              THEN R("ok",
                     [i \in 1..Len(r.val) |->
                         basename(rstrip(r.val[i].file.path, CharsOf(delimiter)))],
                     1)
              ELSE EmptyListing(getinfo(fs, pfx, _path)))

\* scandir after getinfo said "directory": the listing of the path as the
\* caller gave it, each entry made an Info
ScanListing(r, reqs) ==
    IF pacherrors(r.err) # "ok" THEN R(pacherrors(r.err), <<>>, reqs + 1)
    ELSE R("ok", [i \in 1..Len(r.val) |-> _info_from_object(r.val[i])], reqs + 1)

\* PACHFS.scandir, iterated to its end: [err, val (the Infos), reqs]
scandir(fs, pfx, path) ==
    Bind(getinfo(fs, pfx, path), LAMBDA g :
        IF g.err # "ok" THEN R(g.err, <<>>, g.reqs)
        ELSE IF g.val.none THEN R("AttributeError", <<>>, g.reqs)
        ELSE IF ~g.val.is_dir THEN R("DirectoryExpected", <<>>, g.reqs)
        ELSE ScanListing(list_file(fs, Uri(COLON \o path)), g.reqs))

\* b"".join of the values of the chunks of a stream
RECURSIVE ChunkValues(_)
ChunkValues(chunks) ==
    IF chunks = <<>> THEN <<>> ELSE Head(chunks).value \o ChunkValues(Tail(chunks))

readbytes(fs, pfx, path) ==
    Bind(get_file(fs, Uri(COLON \o _path_to_key(pfx, delimiter, validatepath(path)))),
         LAMBDA r :
             IF pacherrors(r.err) # "ok" THEN R(pacherrors(r.err), <<>>, 1)
             ELSE R("ok", ChunkValues(r.val), 1))

\* The listing is read outside pacherrors, and each entry is indexed with
\* "Key", which a FileInfo does not have.
isempty(fs, pfx, path) ==
    Bind2(_path_to_dir_key(pfx, delimiter, validatepath(path)),
          list_file(fs, Uri(COLON \o _path_to_dir_key(pfx, delimiter, validatepath(path)))),
          LAMBDA _key, r :
              IF r.err # "ok" THEN R(r.err, FALSE, 1)
              ELSE IF r.val = <<>> THEN R("ok", TRUE, 1)
              ELSE IF "Key" \notin DOMAIN r.val[1] THEN R("TypeError", FALSE, 1)
              ELSE R("ok",
                     \A i \in 1..Len(r.val) :
                         r.val[i]["Key"] = _key \/ r.val[i]["Key"] = EMPTYNAME,
                     1))

\* "if not self.isempty(path): raise DirectoryNotEmpty"
EmptyCheck(e, reqs) ==
    IF e.err # "ok" THEN R(e.err, FALSE, reqs + e.reqs)
    ELSE IF ~e.val THEN R("DirectoryNotEmpty", FALSE, reqs + e.reqs)
    ELSE R("ok", TRUE, reqs + e.reqs)

\* removedir without its check for the root
removedir_noroot(fs, pfx, path) ==
    Bind(getinfo(fs, pfx, validatepath(path)), LAMBDA g :
        IF g.err # "ok" THEN R(g.err, FALSE, g.reqs)
        ELSE IF g.val.none THEN R("AttributeError", FALSE, g.reqs)
        ELSE IF ~g.val.is_dir THEN R("DirectoryExpected", FALSE, g.reqs)
        ELSE EmptyCheck(isempty(fs, pfx, path), g.reqs))

\* removedir ends after its checks: it stages no delete
removedir(fs, pfx, path) ==
    Bind(validatepath(path), LAMBDA _path :
        IF _path = SLASH THEN R("RemoveRootError", FALSE, 0)
        ELSE Bind(getinfo(fs, pfx, _path), LAMBDA g :
                 IF g.err # "ok" THEN R(g.err, FALSE, g.reqs)
                 ELSE IF g.val.none THEN R("AttributeError", FALSE, g.reqs)
                 ELSE IF ~g.val.is_dir THEN R("DirectoryExpected", FALSE, g.reqs)
                 ELSE EmptyCheck(isempty(fs, pfx, path), g.reqs)))

\* ------------------------------------------------------------- PachFile

\* fs.mode.Mode: the flags are tests on the characters of the mode string
mode_reading(m) == "r" \in CharsOf(m) \/ "+" \in CharsOf(m)
mode_writing(m) == CharsOf(m) \cap {"w", "a", "+", "x"} # {}
mode_create(m) == CharsOf(m) \cap {"w", "a", "x"} # {}
mode_exclusive(m) == "x" \in CharsOf(m)

\* a Python bytes object, as against the BytesValue messages of a stream
Bytes(b) == [type |-> "bytes", value |-> b]

NoHandle ==
    [st |-> "none", mode |-> <<>>, path |-> <<>>, key |-> <<>>, create |-> FALSE,
     buf |-> <<>>, pos |-> 0]

\* the temporary file's write at the current position
raw_write(h, b) ==
    [h EXCEPT !.buf = SubSeq(h.buf, 1, h.pos) \o b
                      \o SubSeq(h.buf, h.pos + Len(b) + 1, Len(h.buf)),
              !.pos = h.pos + Len(b)]

\* PachFile.write without its test of the mode
PachFile_write_any(h, obj) ==
    IF obj.type # "bytes" THEN [err |-> "TypeError", h |-> h]
    ELSE [err |-> "ok", h |-> raw_write(h, obj.value)]

\* PachFile.write: [err, h]
PachFile_write(h, obj) ==
    IF ~mode_writing(h.mode) THEN [err |-> "IOError", h |-> h]
    ELSE IF obj.type # "bytes" THEN [err |-> "TypeError", h |-> h]
    ELSE [err |-> "ok", h |-> raw_write(h, obj.value)]

\* PachFile.read(-1): [err, val, h]
PachFile_read(h) ==
    IF ~mode_reading(h.mode) THEN [err |-> "IOError", val |-> <<>>, h |-> h]
    ELSE [err |-> "ok", val |-> SubSeq(h.buf, h.pos + 1, Len(h.buf)),
          h |-> [h EXCEPT !.pos = Len(h.buf)]]

\* PachFile.factory: a handle over an empty temporary file
factory(path, key, mode, create) ==
    [st |-> "open", mode |-> mode, path |-> path, key |-> key, create |-> create,
     buf |-> <<>>, pos |-> 0]

\* "for byte in bytestream: pach_file.write(byte)"
RECURSIVE write_stream(_, _)
write_stream(h, chunks) ==
    IF chunks = <<>> THEN [err |-> "ok", h |-> h]
    ELSE Bind(PachFile_write(h, Head(chunks)), LAMBDA w :
             IF w.err # "ok" THEN w ELSE write_stream(w.h, Tail(chunks)))

\* openbin in a create mode, after the parent was found: the checks on what
\* getinfo says of the path
CreateCheck(g, h, reqs) ==
    IF g.err \notin {"ok", "ResourceNotFound"} THEN R(g.err, NoHandle, reqs + g.reqs)
    ELSE IF g.err = "ok" /\ mode_exclusive(h.mode)
    THEN R("FileExists", NoHandle, reqs + g.reqs)
    ELSE IF g.err = "ok" /\ g.val.none THEN R("AttributeError", NoHandle, reqs + g.reqs)
    ELSE IF g.err = "ok" /\ g.val.is_dir THEN R("FileExpected", NoHandle, reqs + g.reqs)
    ELSE R("ok", h, reqs + g.reqs)

\* openbin in the other modes: the stream s is written into the handle
Fetch(s, h) ==
    IF pacherrors(s.err) # "ok" THEN R(pacherrors(s.err), NoHandle, 1)
    ELSE Bind(write_stream(h, s.val), LAMBDA w :
             IF w.err # "ok" THEN R(pacherrors(w.err), NoHandle, 1)
             ELSE R("ok", [w.h EXCEPT !.pos = 0], 1))

\* PACHFS.openbin: [err, val (the handle), reqs]
openbin(fs, pfx, path, mode) ==
    Bind2(validatepath(path), _path_to_key(pfx, delimiter, validatepath(path)),
          LAMBDA _path, _key :
              IF mode_create(mode)
              THEN Bind(IF dirname(_path) # SLASH
                        THEN _get_object(fs, _path_to_dir_key(pfx, delimiter,
                                                              dirname(_path)))
                        ELSE R("ok", <<>>, 0),
                        LAMBDA par :
                            IF par.err # "ok" THEN R(par.err, NoHandle, par.reqs)
                            ELSE CreateCheck(getinfo(fs, pfx, path),
                                             factory(_path, _key, mode, TRUE),
                                             par.reqs))
              ELSE Fetch(get_file(fs, Uri(COLON \o _key)),
                         factory(_path, _key, mode, FALSE)))

\* ------------------------------------------------------- checks before commits

\* AbsentCheck without its "else: raise DirectoryExists"
AbsentCheck_pass(g, keypath, reqs) ==
    IF g.err \notin {"ok", "ResourceNotFound"} THEN R(g.err, keypath, reqs + g.reqs)
    ELSE R("ok", keypath, reqs + g.reqs)

\* "try: self._getinfo(path) except ResourceNotFound: pass else: raise"
AbsentCheck(g, keypath, reqs) ==
    IF g.err = "ok" THEN R("DirectoryExists", keypath, reqs + g.reqs)
    ELSE IF g.err # "ResourceNotFound" THEN R(g.err, keypath, reqs + g.reqs)
    ELSE R("ok", keypath, reqs + g.reqs)

\* PACHFS.makedir up to its commit: [err, val (the sentinel's key), reqs]
makedir(fs, pfx, path) ==
    Bind2(_path_to_dir_key(pfx, delimiter, validatepath(path)) \o SLASH \o EMPTYNAME,
          isdir(fs, pfx, dirname(validatepath(path))),
          LAMBDA keypath, d :
              IF d.err # "ok" THEN R(d.err, keypath, d.reqs)
              ELSE IF ~d.val THEN R("ResourceNotFound", keypath, d.reqs)
              ELSE AbsentCheck(_getinfo(fs, pfx, path), keypath, d.reqs))

\* DestinationCheck without its raise
DestinationCheck_pass(e, op) == R(e.err, op, e.reqs)

\* "if not overwrite and self.exists(dst_path): raise DestinationExists"
DestinationCheck(e, op) ==
    IF e.err # "ok" THEN R(e.err, op, e.reqs)
    ELSE IF e.val THEN R("DestinationExists", op, e.reqs)
    ELSE R("ok", op, e.reqs)

\* PACHFS.copy up to its commit: [err, val (the staged copy), reqs].  The
\* source URI is formatted with "/" where a ":" separates branch and path.
copy(fs, pfx, src_path, dst_path, overwrite) ==
    Bind([kind |-> "copy",
          src |-> Uri(SLASH \o _path_to_key(pfx, delimiter, validatepath(src_path))),
          path |-> _path_to_key(pfx, delimiter, validatepath(dst_path))],
         LAMBDA op :
             IF overwrite THEN R("ok", op, 0)
             ELSE DestinationCheck(exists(fs, pfx, dst_path), op))

\* PACHFS.writebytes: the put it stages; no check precedes the commit
writebytes(pfx, path, contents) ==
    [kind |-> "put", path |-> _path_to_key(pfx, delimiter, validatepath(path)),
     data |-> contents]

\* PACHFS.remove: the delete it stages; no check precedes the commit, and no
\* pacherrors wraps it
remove(pfx, path) ==
    [kind |-> "delete", path |-> _path_to_key(pfx, delimiter, validatepath(path))]

\* on_close without its seek(0): the put takes the buffer from the position
on_close_nopos(h) ==
    Bind([kind |-> "put", path |-> h.key, data |-> <<>>], LAMBDA noput :
        IF h.st = "closed" /\ (h.create \/ mode_writing(h.mode))
        THEN [err |-> "ValueError", val |-> noput, flush |-> FALSE]
        ELSE IF ~h.create /\ ~mode_writing(h.mode)
        THEN [err |-> "ok", val |-> noput, flush |-> FALSE]
        ELSE [err |-> "ok",
              val |-> [noput EXCEPT !.data = SubSeq(h.buf, h.pos + 1, Len(h.buf))],
              flush |-> TRUE])

\* on_close over a temporary file that can still be read after it was closed
on_close_again(h) ==
    Bind([kind |-> "put", path |-> h.key, data |-> <<>>], LAMBDA noput :
        IF ~h.create /\ ~mode_writing(h.mode)
        THEN [err |-> "ok", val |-> noput, flush |-> FALSE]
        ELSE [err |-> "ok", val |-> [noput EXCEPT !.data = h.buf], flush |-> TRUE])

\* on_close_create and on_close up to the commit: [err, val (the staged put),
\* flush (whether a commit is opened)]
on_close(h) ==
    Bind([kind |-> "put", path |-> h.key, data |-> <<>>], LAMBDA noput :
        IF h.create
        THEN IF h.st = "closed"
             THEN [err |-> "ValueError", val |-> noput, flush |-> FALSE]
             ELSE [err |-> "ok", val |-> [noput EXCEPT !.data = h.buf], flush |-> TRUE]
        ELSE IF ~mode_writing(h.mode)
        THEN [err |-> "ok", val |-> noput, flush |-> FALSE]
        ELSE IF h.st = "closed"
        THEN [err |-> "ValueError", val |-> noput, flush |-> FALSE]
        ELSE [err |-> "ok",
              val |-> [noput EXCEPT !.data = PachFile_read([h EXCEPT !.pos = 0]).val],
              flush |-> TRUE])

\* what the source URI of copy, which names no branch of the repository, can
\* raise inside the commit
BadUriErrors == {"Rpc404", "Rpc500", "ValueError"}

\* "except ResourceNotFound: if self.exists(src_path): raise FileExpected"
SourceCheck(e) ==
    IF e.err # "ok" THEN R(e.err, FALSE, e.reqs)
    ELSE IF e.val THEN R("FileExpected", FALSE, e.reqs)
    ELSE R("ResourceNotFound", FALSE, e.reqs)

\* The error that leaves call c when its commit ended with err, against the
\* store fs: [err, val, reqs].
after_commit(fs, pfx, c, err) ==
    IF c.op = "remove" \/ c.phase = "remove" THEN R(err, FALSE, 0)
    ELSE IF c.phase = "copy" /\ pacherrors(err) = "ResourceNotFound"
    THEN SourceCheck(exists(fs, pfx, c.path))
    ELSE R(pacherrors(err), FALSE, 0)

\* ---------------------------------------------------------------- the state

VARIABLES
    dir_path,   \* the dir_path the filesystem was constructed with
    files,      \* the repository: cleaned file path -> content
    pc,         \* per thread: "idle", or "commit" inside "with client.pfs.commit"
    cur,        \* per thread: the call in progress
    staged,     \* per thread: the operations staged in its open commit
    hnd,        \* per thread: the PachFile it holds
    tlocal,     \* per thread: self._tlocal.client (0: no such attribute)
    nclients,   \* number of Client objects constructed
    last,       \* per thread: its call that returned or raised last
    nops        \* number of calls begun

vars == <<dir_path, files, pc, cur, staged, hnd, tlocal, nclients, last, nops, backend>>

Threads == {"t1", "t2"}

Byte == {1, 2}

Contents == UNION {[1..n -> Byte] : n \in 0..MaxLen}

DirPaths == {SLASH, <<"/", "r">>}

\* the paths callers name: normalized ones, and one that validatepath rewrites
NormalPaths == {<<"/", "a">>, <<"/", "a", "/", "x">>, <<"/", "a", "/", "y">>}
InputPaths == NormalPaths \cup {<<"a", "/", "x">>}

\* (source, destination) of the copies and moves
CopyPairs ==
    {<<<<"/", "a", "/", "x">>, <<"/", "a", "/", "y">>>>,
     <<<<"/", "a", "/", "y">>, <<"/", "a">>>>}

Modes == {Str1("r"), Str1("w"), Str1("x"), Str1("a"), Str2("r", "+")}

_prefix == prefix_of(dir_path)

EmptyStore == [k \in {} |-> <<>>]

NoCall ==
    [n |-> 0, op |-> "none", path |-> <<>>, path2 |-> <<>>, mode |-> <<>>,
     data |-> <<>>, phase |-> "", commits |-> 0, over |-> {}]

NoLast ==
    [n |-> 0, op |-> "none", path |-> <<>>, path2 |-> <<>>, mode |-> <<>>,
     data |-> <<>>, err |-> "ok", val |-> FALSE, commits |-> 0, reqs |-> 0,
     over |-> {}]

\* where the backend keeps the file the filesystem calls path
Stored(pfx, path) == Clean(_path_to_key(pfx, delimiter, path))

\* The repository may hold files when the filesystem is constructed over it:
\* nothing, a file, an empty file, a file where the callers' directory is, or
\* the sentinel of an empty directory.
InitStores(pfx) ==
    {EmptyStore,
     [k \in {Stored(pfx, <<"/", "a", "/", "x">>)} |-> <<1>>],
     [k \in {Stored(pfx, <<"/", "a", "/", "y">>)} |-> <<>>],
     [k \in {Stored(pfx, <<"/", "a">>)} |-> <<2>>],
     [k \in {Stored(pfx, <<"/", "a", "/">> \o EMPTYNAME)} |-> <<>>]}

Init ==
    /\ dir_path \in DirPaths
    /\ files \in InitStores(_prefix)
    /\ pc = [t \in Threads |-> "idle"]
    /\ cur = [t \in Threads |-> NoCall]
    /\ staged = [t \in Threads |-> <<>>]
    /\ hnd = [t \in Threads |-> NoHandle]
    /\ tlocal = [t \in Threads |-> 0]
    /\ nclients = 0
    /\ last = [t \in Threads |-> NoLast]
    /\ nops = 0
    /\ backend = "up"

\* client with self._tlocal an object that all threads share
client_shared(t) == IF nclients = 0 THEN 1 ELSE nclients

\* PACHFS.client: the thread's Client, constructed on the first access
client(t) == IF tlocal[t] = 0 THEN nclients + 1 ELSE tlocal[t]

UseClient(t, used) ==
    /\ tlocal' = IF used THEN [tlocal EXCEPT ![t] = client(t)] ELSE tlocal
    /\ nclients' = IF used /\ tlocal[t] = 0 THEN nclients + 1 ELSE nclients

CanCall(t, max) == pc[t] = "idle" /\ nops < max

\* the n-th call of the behaviour, as it begins; over: the threads whose
\* commit is open at that moment
Call(op, path, path2, mode, data) ==
    [n |-> nops + 1, op |-> op, path |-> path, path2 |-> path2, mode |-> mode,
     data |-> data, phase |-> "", commits |-> 0,
     over |-> {u \in Threads : pc[u] = "commit"}]

\* the record of a call that has returned or raised
Outcome(c, err, val, reqs) ==
    [n |-> c.n, op |-> c.op, path |-> c.path, path2 |-> c.path2,
     mode |-> c.mode, data |-> c.data, err |-> err, val |-> val,
     commits |-> c.commits, reqs |-> reqs, over |-> c.over]

\* A call that returns or raises without opening a commit; r is [err, val, reqs].
Atomic(t, c, r) ==
    /\ last' = [last EXCEPT ![t] = Outcome(c, r.err, r.val, r.reqs)]
    /\ nops' = nops + 1
    /\ UseClient(t, r.reqs > 0)
    /\ UNCHANGED <<dir_path, files, pc, cur, staged, backend>>

\* A call that opens a commit and stages ops in it.
Commit(t, c, ops) ==
    /\ pc' = [pc EXCEPT ![t] = "commit"]
    /\ cur' = [cur EXCEPT ![t] = [c EXCEPT !.commits = c.commits + 1]]
    /\ staged' = [staged EXCEPT ![t] = [i \in DOMAIN ops |-> Stage(ops[i])]]
    /\ nops' = nops + 1
    /\ UseClient(t, TRUE)
    /\ UNCHANGED <<dir_path, files, hnd, last, backend>>

\* -------------------------------------------------------------- the calls

\* PACHFS.removedir: it only checks, and opens no commit
call_removedir(t) ==
    /\ CanCall(t, MaxOps)
    /\ \E p \in InputPaths \cup {SLASH} :
          Atomic(t, Call("removedir", validatepath(p), <<>>, <<>>, <<>>),
                 removedir(files, _prefix, p))
    /\ UNCHANGED hnd

\* makedir returns or raises before its commit, or opens it
Checked(t, c, m, ops) ==
    IF m.err # "ok"
    THEN Atomic(t, c, R(m.err, FALSE, m.reqs)) /\ UNCHANGED hnd
    ELSE Commit(t, c, ops)

call_makedir(t) ==
    /\ CanCall(t, MaxOps)
    /\ \E p \in InputPaths \cup {SLASH} :
          Bind(makedir(files, _prefix, p), LAMBDA m :
              Checked(t, Call("makedir", validatepath(p), <<>>, <<>>, <<>>), m,
                      <<[kind |-> "put", path |-> m.val, data |-> <<>>]>>))

call_writebytes(t) ==
    /\ CanCall(t, MaxOps)
    /\ \E p \in InputPaths, b \in Contents :
          Commit(t, Call("writebytes", validatepath(p), <<>>, <<>>, b),
                 <<writebytes(_prefix, p, b)>>)

call_remove(t) ==
    /\ CanCall(t, MaxOps)
    /\ \E p \in InputPaths :
          Commit(t, Call("remove", validatepath(p), <<>>, <<>>, <<>>),
                 <<remove(_prefix, p)>>)

\* PACHFS.copy, and PACHFS.move, which begins as copy does
call_copy(t) ==
    /\ CanCall(t, MaxOps)
    /\ \E sd \in CopyPairs, overwrite \in BOOLEAN, op \in {"copy", "move"} :
          Bind(copy(files, _prefix, sd[1], sd[2], overwrite), LAMBDA k :
              Checked(t, [Call(op, validatepath(sd[1]), validatepath(sd[2]),
                               IF overwrite THEN Str1("o") ELSE <<>>, <<>>)
                          EXCEPT !.phase = "copy"],
                      k, <<k.val>>))

call_openbin(t) ==
    /\ CanCall(t, MaxFileOps)
    /\ hnd[t].st # "open"
    /\ \E p \in NormalPaths, m \in Modes :
          Bind(openbin(files, _prefix, p, m), LAMBDA o :
              /\ Atomic(t, Call("openbin", validatepath(p), <<>>, m, <<>>),
                        R(o.err, o.err = "ok", o.reqs))
              /\ hnd' = IF o.err = "ok" THEN [hnd EXCEPT ![t] = o.val] ELSE hnd)

\* PachFile.write on the thread's open handle
call_write(t) ==
    /\ CanCall(t, MaxFileOps)
    /\ hnd[t].st = "open"
    /\ \E b \in Contents \ {<<>>} :
          Bind(PachFile_write(hnd[t], Bytes(b)), LAMBDA w :
              /\ Len(w.h.buf) <= MaxLen
              /\ Atomic(t, Call("write", hnd[t].path, <<>>, hnd[t].mode, b),
                        R(w.err, Len(b), 0))
              /\ hnd' = [hnd EXCEPT ![t] = w.h])

\* PachFile.read on the thread's open handle
call_read(t) ==
    /\ CanCall(t, MaxFileOps)
    /\ hnd[t].st = "open"
    /\ Bind(PachFile_read(hnd[t]), LAMBDA r :
          /\ Atomic(t, Call("read", hnd[t].path, <<>>, hnd[t].mode, <<>>),
                    R(r.err, r.val, 0))
          /\ hnd' = [hnd EXCEPT ![t] = r.h])

\* PachFile.close; a handle can still be closed after the last other call
call_close(t) ==
    /\ CanCall(t, MaxFileOps + 1)
    /\ hnd[t].st # "none"
    /\ Bind2(on_close(hnd[t]),
             Call("close", hnd[t].path, <<>>, hnd[t].mode, on_close(hnd[t]).val.data),
             LAMBDA k, c :
                 IF k.flush
                 THEN Commit(t, c, <<k.val>>)
                 ELSE /\ Atomic(t, c, R(k.err, FALSE, 0))
                      /\ hnd' = [hnd EXCEPT ![t].st = "closed"])

\* a return that leaves the commit of the thread open
Return_open(t, c, r) ==
    /\ last' = [last EXCEPT ![t] = Outcome(c, r.err, r.val, r.reqs)]
    /\ hnd' = IF c.op = "close" THEN [hnd EXCEPT ![t].st = "closed"] ELSE hnd
    /\ UNCHANGED <<pc, cur, staged>>

\* a return of close without the "finally: pach_file.raw.close()"
Return_leak(t, c, r) ==
    /\ pc' = [pc EXCEPT ![t] = "idle"]
    /\ cur' = [cur EXCEPT ![t] = NoCall]
    /\ staged' = [staged EXCEPT ![t] = <<>>]
    /\ last' = [last EXCEPT ![t] = Outcome(c, r.err, r.val, r.reqs)]
    /\ hnd' = IF c.op = "close" /\ r.err = "ok"
              THEN [hnd EXCEPT ![t].st = "closed"] ELSE hnd

\* the call of thread t returns or raises as its commit ends
Return(t, c, r) ==
    /\ pc' = [pc EXCEPT ![t] = "idle"]
    /\ cur' = [cur EXCEPT ![t] = NoCall]
    /\ staged' = [staged EXCEPT ![t] = <<>>]
    /\ last' = [last EXCEPT ![t] = Outcome(c, r.err, r.val, r.reqs)]
    /\ hnd' = IF c.op = "close" THEN [hnd EXCEPT ![t].st = "closed"] ELSE hnd

\* move goes on from copy to remove, in a second commit
GoOn(t, c) ==
    /\ cur' = [cur EXCEPT ![t] = [c EXCEPT !.phase = "remove",
                                           !.commits = c.commits + 1]]
    /\ staged' = [staged EXCEPT ![t] = <<Stage(remove(_prefix, c.path))>>]
    /\ UNCHANGED <<pc, last, hnd>>

\* The commit of thread t is finished: its operations reach the repository
\* as a unit, and the call returns, raises, or (move) goes on to remove.
Finish(t) ==
    /\ pc[t] = "commit"
    /\ \E bad \in BadUriErrors :
          Bind(ApplyOps(files, files, staged[t]), LAMBDA a :
              /\ files' = a.fs
              /\ Bind(after_commit(a.fs, _prefix, cur[t],
                                   IF a.err = "BadBranch" THEN bad ELSE a.err),
                      LAMBDA r :
                          IF cur[t].op = "move" /\ cur[t].phase = "copy" /\ r.err = "ok"
                          THEN GoOn(t, cur[t])
                          ELSE Return(t, cur[t], r)))
    /\ UNCHANGED <<dir_path, tlocal, nclients, nops, backend>>

\* the calls on paths
StoreStep(t) ==
    \/ call_removedir(t)
    \/ call_makedir(t)
    \/ call_writebytes(t)
    \/ call_remove(t)
    \/ call_copy(t)
    \/ Finish(t)

\* the calls that write a file at once or through a PachFile
FileStep(t) ==
    \/ call_writebytes(t)
    \/ call_openbin(t)
    \/ call_write(t)
    \/ call_read(t)
    \/ call_close(t)
    \/ Finish(t)

\* one caller: every call runs to its end before the next begins
Next == StoreStep("t1")

Spec == Init /\ [][Next]_vars

FileNext == FileStep("t1")

FileSpec == Init /\ [][FileNext]_vars

\* two callers that write: their commits are open at the same time
ConcNext == \E t \in Threads : call_writebytes(t) \/ Finish(t)

\* a thread inside "with self.client.pfs.commit(...)" goes on to leave it
ConcSpec == Init /\ [][ConcNext]_vars /\ \A t \in Threads : WF_vars(Finish(t))

\* ------------------------------------------------------------- the key codec

\* the delimiters a filesystem may be constructed with
Delimiters == {SLASH, Str1("-")}

\* the paths handed to the codec: those of the callers, and one with "//"
CodecPaths == InputPaths \cup {<<"/", "a", "/", "/", "x">>}

\* PACHFS._path_to_key of a filesystem with delimiter d
call_path_to_key(t) ==
    /\ CanCall(t, MaxOps)
    /\ \E p \in CodecPaths, d \in Delimiters :
          Atomic(t, Call("_path_to_key", p, <<>>, d, <<>>),
                 R("ok", _path_to_key(_prefix, d, p), 0))
    /\ UNCHANGED hnd

\* PACHFS._key_to_path of the key that _path_to_key returned last
call_key_to_path(t) ==
    /\ CanCall(t, MaxOps)
    /\ last[t].op = "_path_to_key"
    /\ Atomic(t, Call("_key_to_path", last[t].val, <<>>, last[t].mode, <<>>),
              R("ok", _key_to_path(last[t].mode, last[t].val), 0))
    /\ UNCHANGED hnd

CodecNext == call_path_to_key("t1") \/ call_key_to_path("t1")

CodecSpec == Init /\ [][CodecNext]_vars

\* ------------------------------------------------------ a backend that fails

\* PACHFS.listdir
call_listdir(t) ==
    /\ CanCall(t, MaxOps)
    /\ \E p \in InputPaths \cup {SLASH} :
          Atomic(t, Call("listdir", validatepath(p), <<>>, <<>>, <<>>),
                 listdir(files, _prefix, p))
    /\ UNCHANGED hnd

\* PACHFS.isempty
call_isempty(t) ==
    /\ CanCall(t, MaxOps)
    /\ \E p \in InputPaths :
          Atomic(t, Call("isempty", validatepath(p), <<>>, <<>>, <<>>),
                 isempty(files, _prefix, p))
    /\ UNCHANGED hnd

\* the backend begins to fail: from here on it answers every request, and the
\* end of every commit, with the failure f
Fail ==
    /\ backend = "up"
    /\ \E f \in Faults : backend' = f
    /\ UNCHANGED <<dir_path, files, pc, cur, staged, hnd, tlocal, nclients, last, nops>>

FaultNext ==
    \/ StoreStep("t1")
    \/ call_openbin("t1")
    \/ call_listdir("t1")
    \/ call_isempty("t1")
    \/ Fail

\* one caller over a backend that may begin to fail between two steps
FaultSpec == Init /\ [][FaultNext]_vars

\* ------------------------------------------------------------ properties

PathA == <<"/", "a">>
PathAX == <<"/", "a", "/", "x">>
PathAY == <<"/", "a", "/", "y">>

\* the filesystem's view of the repository: its root always is a directory
DirAt(fs, pfx, path) == path = SLASH \/ IsDirB(fs, Stored(pfx, path))
FileAt(fs, pfx, path) == path # SLASH /\ IsFileB(fs, Stored(pfx, path))
ExistsAt(fs, pfx, path) == DirAt(fs, pfx, path) \/ FileAt(fs, pfx, path)

\* the names of the children of a directory of the repository
ChildNames(fs, p) == {SegSeq[i] : i \in {j \in 1..Len(SegSeq) : ExistsB(fs, ChildPath(p, SegSeq[j]))}}

\* a step in which a call of thread t returns or raises
Returns(t) == last'[t].n # last[t].n

\* openbin(path, "r") and read() on the handle: [err, val, reqs]
ReadBack(fs, pfx, path) ==
    Bind(openbin(fs, pfx, path, Str1("r")), LAMBDA o :
        IF o.err # "ok" THEN R(o.err, <<>>, o.reqs)
        ELSE Bind(PachFile_read(o.val), LAMBDA r : R(r.err, r.val, o.reqs)))

\* the bytes of a call that wrote a file and returned: writebytes, or close
\* of a handle that openbin(p, "w") gave
Wrote(c) ==
    /\ c.err = "ok"
    /\ \/ c.op = "writebytes"
       \/ c.op = "close" /\ c.mode = Str1("w") /\ c.commits = 1

\* C1: after writebytes(p, b) returns, or after a handle of openbin(p, "w")
\* that holds b is closed, readbytes(p) returns b and so does reading a
\* handle of openbin(p, "r"); b may be empty.
C1_RoundTrip ==
    Wrote(last["t1"]) =>
        /\ Bind(readbytes(files, _prefix, last["t1"].path), LAMBDA r :
               r.err = "ok" /\ r.val = last["t1"].data)
        /\ Bind(ReadBack(files, _prefix, last["t1"].path), LAMBDA r :
               r.err = "ok" /\ r.val = last["t1"].data)

\* C2: after makedir(p) returns, isdir(p) is true and listdir(p) is the empty
\* list.
C2_MakedirThenEmpty ==
    (last["t1"].op = "makedir" /\ last["t1"].err = "ok") =>
        /\ Bind(isdir(files, _prefix, last["t1"].path), LAMBDA d :
               d.err = "ok" /\ d.val)
        /\ Bind(listdir(files, _prefix, last["t1"].path), LAMBDA l :
               l.err = "ok" /\ l.val = <<>>)

C4_ImplicitDirectory ==
    DOMAIN files = {Stored(_prefix, PathAX), Stored(_prefix, PathAY)} =>
        /\ Bind(listdir(files, _prefix, PathA), LAMBDA l :
               /\ l.err = "ok"
               /\ Len(l.val) = 2
               /\ {l.val[i] : i \in 1..Len(l.val)} = {Str1("x"), Str1("y")})
        /\ Bind(isdir(files, _prefix, PathA), LAMBDA d : d.err = "ok" /\ d.val)

\* C5: removedir(p) of a directory with a child other than the sentinel
\* raises DirectoryNotEmpty and leaves the repository as it was; of a
\* directory whose only child is the sentinel it returns, and p is gone.
C5_Removedir ==
    [][(Returns("t1") /\ last'["t1"].op = "removedir"
        /\ last'["t1"].path # SLASH
        /\ IsDirB(files, Stored(_prefix, last'["t1"].path))) =>
          IF ChildNames(files, Stored(_prefix, last'["t1"].path)) = {EMPTYNAME}
          THEN /\ last'["t1"].err = "ok"
               /\ ~ExistsAt(files', _prefix, last'["t1"].path)
               /\ Bind(exists(files', _prefix, last'["t1"].path), LAMBDA e :
                      e.err = "ok" /\ ~e.val)
          ELSE /\ last'["t1"].err = "DirectoryNotEmpty"
               /\ files' = files]_vars

\* C6: removedir("/") raises RemoveRootError whatever the repository holds,
\* after no request to the backend and no commit.
C6_RemoveRoot ==
    [][(Returns("t1") /\ last'["t1"].op = "removedir" /\ last'["t1"].path = SLASH) =>
          /\ last'["t1"].err = "RemoveRootError"
          /\ last'["t1"].reqs = 0
          /\ last'["t1"].commits = 0
          /\ files' = files
          /\ tlocal' = tlocal]_vars

C6_Witness ==
    /\ last["t1"].op = "removedir"
    /\ last["t1"].path = SLASH
    /\ last["t1"].err = "RemoveRootError"
    /\ files # EmptyStore

\* C7: openbin in mode "x" of a path that exists raises FileExists, openbin
\* in any other mode of a directory raises FileExpected; neither opens a
\* commit.
C7_OpenbinRefuses ==
    [][(Returns("t1") /\ last'["t1"].op = "openbin") =>
          /\ (mode_exclusive(last'["t1"].mode)
              /\ ExistsAt(files, _prefix, last'["t1"].path)) =>
                last'["t1"].err = "FileExists" /\ last'["t1"].commits = 0
          /\ (~mode_exclusive(last'["t1"].mode)
              /\ DirAt(files, _prefix, last'["t1"].path)) =>
                last'["t1"].err = "FileExpected" /\ last'["t1"].commits = 0]_vars

\* C8: copy(src, dst) without overwrite raises DestinationExists when dst is
\* a file or a directory; it opened no commit and the repository is as it was.
C8_DestinationExists ==
    [][(Returns("t1") /\ last'["t1"].op = "copy" /\ last'["t1"].mode = <<>>
        /\ ExistsAt(files, _prefix, last'["t1"].path2)) =>
          /\ last'["t1"].err = "DestinationExists"
          /\ last'["t1"].commits = 0
          /\ files' = files]_vars

C8_Witness ==
    /\ last["t1"].op = "copy"
    /\ last["t1"].mode = <<>>
    /\ last["t1"].err = "DestinationExists"
    /\ last["t1"].commits = 0
    /\ IsDirB(files, Stored(_prefix, last["t1"].path2))

\* C9: move(src, dst) of a file src to an absent dst returns, and then src
\* does not exist, dst exists, and dst reads as src did.
C9_Move ==
    [][(Returns("t1") /\ last'["t1"].op = "move"
        /\ FileAt(files, _prefix, last'["t1"].path)
        /\ (cur["t1"].phase = "copy" => ~ExistsAt(files, _prefix, last'["t1"].path2))) =>
          /\ last'["t1"].err = "ok"
          /\ Bind(exists(files', _prefix, last'["t1"].path), LAMBDA e :
                 e.err = "ok" /\ ~e.val)
          /\ Bind(exists(files', _prefix, last'["t1"].path2), LAMBDA e :
                 e.err = "ok" /\ e.val)
          /\ Bind(readbytes(files', _prefix, last'["t1"].path2), LAMBDA r :
                 r.err = "ok" /\ r.val = files[Stored(_prefix, last'["t1"].path)])]_vars

\* two writebytes of different bytes to one path that can hold a file, by the
\* two threads, the later begun while the commit of the earlier was open
Raced ==
    /\ \A t \in Threads : pc[t] = "idle" /\ last[t].op = "writebytes"
    /\ last["t1"].path = last["t2"].path
    /\ last["t1"].data # last["t2"].data
    /\ last["t1"].over \cup last["t2"].over # {}
    /\ ~PutConflict(files, Stored(_prefix, last["t1"].path))

\* the calls of a race returned, and the path holds the bytes of one of them
OneWriterWon ==
    Raced =>
        /\ \A t \in Threads : last[t].err = "ok"
        /\ FileAt(files, _prefix, last["t1"].path)
        /\ files[Stored(_prefix, last["t1"].path)]
              \in {last["t1"].data, last["t2"].data}

\* C10: every commit a thread opens ends, whatever the other thread does; and
\* when two threads have written different bytes to one path in commits that
\* were open together, both calls returned and the path holds the bytes of
\* one of them.
C10_LastCommitterWins ==
    /\ []OneWriterWon
    /\ \A t \in Threads : (pc[t] = "commit") ~> (pc[t] = "idle")

C10_Witness ==
    /\ Raced
    /\ last["t1"].n = 1
    /\ files[Stored(_prefix, last["t1"].path)] = last["t1"].data

\* C11: listdir(p) and scandir(p) of a path that is a file raise
\* DirectoryExpected.
C11_ListingAFile ==
    \A p \in NormalPaths :
        FileAt(files, _prefix, p) =>
            /\ listdir(files, _prefix, p).err = "DirectoryExpected"
            /\ scandir(files, _prefix, p).err = "DirectoryExpected"

\* a path of the filesystem, not the root, at which the repository holds
\* neither a file nor a directory
Absent(p) == validatepath(p) # SLASH /\ ~ExistsAt(files, _prefix, validatepath(p))

C13_CodecRoundTrip ==
    /\ last["t1"].op = "_path_to_key" =>
          _key_to_path(last["t1"].mode, last["t1"].val)
              = relpath(normpath(last["t1"].path))
    /\ last["t1"].op = "_key_to_path" =>
          _path_to_key(_prefix, last["t1"].mode, last["t1"].val) = last["t1"].path

\* no two threads hold the same Client, and a Client was constructed once for
\* each thread that holds one
OwnClients ==
    /\ \A t, u \in Threads : (t # u /\ tlocal[t] # 0) => tlocal[t] # tlocal[u]
    /\ nclients = Cardinality({t \in Threads : tlocal[t] # 0})

\* C14: a thread constructs its Client on its first access and keeps it in
\* every later call, and no Client is held by two threads.
C14_ClientPerThread ==
    /\ []OwnClients
    /\ [][\A t \in Threads : tlocal[t] # 0 => tlocal'[t] = tlocal[t]]_vars

C14_Witness ==
    /\ \A t \in Threads : pc[t] = "commit" /\ tlocal[t] # 0
    /\ tlocal["t1"] # tlocal["t2"]
    /\ nclients = 2

\* the commits that are open: a thread inside "with self.client.pfs.commit"
OpenCommits == {t \in Threads : pc[t] = "commit" \/ staged[t] # <<>>}

\* C15: a step in which a call returns or raises leaves no commit of its
\* thread open, whether the staged operation took effect or failed; when no
\* call is in progress no commit is open.
C15_CommitsClosed ==
    /\ []((\A t \in Threads : cur[t] = NoCall) => OpenCommits = {})
    /\ [][\A t \in Threads : Returns(t) => t \notin OpenCommits']_vars

C15_Witness ==
    /\ last["t1"].op = "copy"
    /\ last["t1"].commits = 1
    /\ last["t1"].err # "ok"
    /\ last["t1"].n = 2
    /\ OpenCommits = {}

\* C16: a step in which close() returns or raises leaves the handle closed,
\* whatever its mode; and when the put of its flush fails, close() raises.
C16_CloseReleases ==
    [][(Returns("t1") /\ last'["t1"].op = "close") =>
          /\ hnd'["t1"].st = "closed"
          /\ (pc["t1"] = "commit" /\ ApplyOps(files, files, staged["t1"]).err # "ok")
                => last'["t1"].err # "ok"]_vars

C16_Witness ==
    /\ last["t1"].op = "close"
    /\ last["t1"].commits = 1
    /\ last["t1"].err = "OperationFailed"
    /\ hnd["t1"].st = "closed"

\* C17: close() of a handle that is not writable opens no commit and leaves
\* the repository as it was; close() of an open writable handle runs one
\* commit with one put, of the whole buffer whatever the position, and when
\* it returns the file holds the buffer.
C17_CloseFlush ==
    [][(Returns("t1") /\ last'["t1"].op = "close") =>
          IF ~mode_writing(last'["t1"].mode)
          THEN last'["t1"].commits = 0 /\ files' = files
          ELSE hnd["t1"].st = "open" =>
                  /\ last'["t1"].commits = 1
                  /\ staged["t1"] = <<[kind |-> "put", path |-> Clean(hnd["t1"].key),
                                       data |-> hnd["t1"].buf]>>
                  /\ last'["t1"].err = "ok" =>
                        files' = StorePut(files, Clean(hnd["t1"].key), hnd["t1"].buf)]_vars

C17_Witness ==
    /\ last["t1"].op = "close"
    /\ last["t1"].err = "ok"
    /\ last["t1"].commits = 1
    /\ hnd["t1"].buf # <<>>
    /\ hnd["t1"].pos = Len(hnd["t1"].buf)
    /\ files[Clean(hnd["t1"].key)] = hnd["t1"].buf

\* C18: openbin(p, "r") of a file returns a handle at position 0 whose
\* buffer is the content of the file, and read() on it returns that content.
C18_OpenForRead ==
    [][(Returns("t1") /\ last'["t1"].op = "openbin" /\ last'["t1"].mode = Str1("r")
        /\ FileAt(files, _prefix, last'["t1"].path)) =>
          /\ last'["t1"].err = "ok"
          /\ hnd'["t1"].st = "open"
          /\ hnd'["t1"].pos = 0
          /\ hnd'["t1"].buf = files[Stored(_prefix, last'["t1"].path)]
          /\ Bind(PachFile_read(hnd'["t1"]), LAMBDA r :
                 r.err = "ok" /\ r.val = files[Stored(_prefix, last'["t1"].path)])]_vars

\* the append and update modes
KeepingModes == {Str1("a"), Str2("r", "+")}

\* C19: openbin(p, "a") and openbin(p, "r+") of a file return a handle whose
\* buffer is the content of the file; and when close() of such a handle
\* returns, the file begins with the content it had and ends with the
\* buffer.
C19_AppendKeeps ==
    [][(Returns("t1") /\ last'["t1"].mode \in KeepingModes
        /\ FileAt(files, _prefix, last'["t1"].path)) =>
          /\ last'["t1"].op = "openbin" =>
                /\ last'["t1"].err = "ok"
                /\ hnd'["t1"].buf = files[Stored(_prefix, last'["t1"].path)]
          /\ (last'["t1"].op = "close" /\ last'["t1"].err = "ok" /\ pc["t1"] = "commit") =>
                /\ startswith(files'[Stored(_prefix, last'["t1"].path)],
                              files[Stored(_prefix, last'["t1"].path)])
                /\ files'[Stored(_prefix, last'["t1"].path)] = hnd["t1"].buf]_vars

\* C20: write() on a handle whose mode is not writing raises and leaves the
\* buffer and the position as they were; read() on a handle whose mode is not
\* reading raises and leaves the position as it was.
C20_ModeRefusals ==
    [][Returns("t1") =>
          /\ (last'["t1"].op = "write" /\ ~mode_writing(hnd["t1"].mode)) =>
                last'["t1"].err = "IOError" /\ hnd' = hnd
          /\ (last'["t1"].op = "read" /\ ~mode_reading(hnd["t1"].mode)) =>
                last'["t1"].err = "IOError" /\ hnd' = hnd]_vars

C20_Witness ==
    /\ last["t1"].op = "write"
    /\ last["t1"].mode = Str1("r")
    /\ last["t1"].err = "IOError"
    /\ hnd["t1"].st = "open"
    /\ hnd["t1"].buf = <<>>
    /\ hnd["t1"].pos = 0

\* ---------------------------------------------- the keys of the requests
\* For each method, the set of the keys, as the method formats them into the
\* URI or the path of a request, that it sends to the backend against store fs.

\* _get_object: the key without the delimiter and, after a not-found answer,
\* the key with it
_get_object_keys(fs, key) ==
    Bind(rstrip(key, CharsOf(delimiter)), LAMBDA _key :
        {_key} \cup (IF _get_object(fs, key).reqs = 2 THEN {_key \o delimiter} ELSE {}))

\* getinfo: the path itself when its parent is not the root, then _get_object
getinfo_keys(fs, pfx, path) ==
    Bind2(validatepath(path), ParentCheck(fs, validatepath(path)), LAMBDA _path, pre :
        (IF pre.reqs > 0 THEN {_path} ELSE {})
        \cup (IF pre.err = "ok" /\ _path # SLASH
              THEN _get_object_keys(fs, _path_to_key(pfx, delimiter, _path))
              ELSE {}))

\* listdir: the path itself, then getinfo when the listing came back empty
listdir_keys(fs, pfx, path) ==
    Bind(validatepath(path), LAMBDA _path :
        {_path} \cup (IF listdir(fs, pfx, path).reqs > 1
                      THEN getinfo_keys(fs, pfx, _path) ELSE {}))

\* scandir: getinfo, then the path as the caller gave it
scandir_keys(fs, pfx, path) ==
    getinfo_keys(fs, pfx, path)
    \cup (IF IsDirOf(getinfo(fs, pfx, path), TRUE) = R("ok", TRUE, getinfo(fs, pfx, path).reqs)
          THEN {path} ELSE {})

exists_keys(fs, pfx, path) ==
    IF validatepath(path) = SLASH THEN {}
    ELSE _get_object_keys(fs, _path_to_dir_key(pfx, delimiter, validatepath(path)))

readbytes_keys(pfx, path) == {_path_to_key(pfx, delimiter, validatepath(path))}

\* openbin: in a create mode the parent and getinfo, else the get of the key
openbin_keys(fs, pfx, path, mode) ==
    Bind(validatepath(path), LAMBDA _path :
        IF ~mode_create(mode) THEN {_path_to_key(pfx, delimiter, _path)}
        ELSE IF dirname(_path) = SLASH THEN getinfo_keys(fs, pfx, path)
        ELSE _get_object_keys(fs, _path_to_dir_key(pfx, delimiter, dirname(_path)))
             \cup (IF _get_object(fs, _path_to_dir_key(pfx, delimiter, dirname(_path))).err = "ok"
                   THEN getinfo_keys(fs, pfx, path) ELSE {}))

\* makedir: isdir of the parent, _getinfo of the path, the put of the sentinel
makedir_keys(fs, pfx, path) ==
    Bind(makedir(fs, pfx, path), LAMBDA m :
        getinfo_keys(fs, pfx, dirname(validatepath(path)))
        \cup (IF m.err \in {"ok", "DirectoryExists"} /\ validatepath(path) # SLASH
              THEN _get_object_keys(fs, _path_to_key(pfx, delimiter, validatepath(path)))
              ELSE {})
        \cup (IF m.err = "ok" THEN {m.val} ELSE {}))

\* copy: exists of the destination, then the key of the destination; the
\* source URI names no key of the branch
copy_keys(fs, pfx, src_path, dst_path, overwrite) ==
    Bind(copy(fs, pfx, src_path, dst_path, overwrite), LAMBDA k :
        (IF overwrite THEN {} ELSE exists_keys(fs, pfx, dst_path))
        \cup (IF k.err = "ok" THEN {k.val.path} ELSE {}))

\* the keys of the requests of every operation on path p
RequestKeys(fs, pfx, p) ==
    getinfo_keys(fs, pfx, p) \cup listdir_keys(fs, pfx, p) \cup scandir_keys(fs, pfx, p)
    \cup exists_keys(fs, pfx, p) \cup readbytes_keys(pfx, p)
    \cup UNION {openbin_keys(fs, pfx, p, m) : m \in Modes}
    \cup makedir_keys(fs, pfx, p)
    \cup {writebytes(pfx, p, <<>>).path, remove(pfx, p).path}
    \cup UNION {copy_keys(fs, pfx, sd[1], sd[2], FALSE) : sd \in {cp \in CopyPairs : cp[2] = p}}

\* key k lies under the scoped root: it is the prefix or goes on below it
UnderPrefix(pfx, k) ==
    Bind2(Clean(pfx), Clean(k), LAMBDA root, ck :
        root = SLASH \/ ck = root \/ startswith(ck, root \o SLASH))

\* C21: in a filesystem constructed with a dir_path that is not the root,
\* every request that getinfo, listdir, scandir, exists, openbin, readbytes,
\* writebytes, makedir, remove and copy send, and every operation staged in a
\* commit, names a key under the prefix of the filesystem.
C21_ScopedRequests ==
    dir_path # SLASH =>
        /\ \A p \in InputPaths :
              \A k \in RequestKeys(files, _prefix, p) : UnderPrefix(_prefix, k)
        /\ \A t \in Threads : \A i \in DOMAIN staged[t] :
              UnderPrefix(_prefix, staged[t][i].path)

\* the kinds of fs.errors that the filesystem raises
Taxonomy ==
    {"ResourceNotFound", "DirectoryExpected", "FileExpected", "FileExists",
     "DirectoryExists", "DirectoryNotEmpty", "DestinationExists", "RemoveRootError",
     "PermissionDenied", "OperationFailed", "RemoteConnectionError"}

\* the kinds as which the failure f of the backend may reach the caller
KindsOf(f) ==
    IF f = "Rpc404" THEN {"ResourceNotFound"}
    ELSE IF f = "Rpc403" THEN {"PermissionDenied"}
    ELSE {"OperationFailed", "RemoteConnectionError"}

\* C22: a call that sent a request to, or ended a commit on, a backend that
\* fails raises the kind of the taxonomy that belongs to the failure
\* (permission denied as PermissionDenied, any other as OperationFailed or
\* RemoteConnectionError), never the error of the backend itself; and over a
\* backend that serves, getinfo of a path does not raise RemoteConnectionError
\* where the path is not found.
C22_FailuresTranslated ==
    /\ [][(Returns("t1") /\ backend # "up"
           /\ (last'["t1"].reqs > 0 \/ last'["t1"].commits > 0)) =>
             /\ last'["t1"].err \in Taxonomy
             /\ last'["t1"].err \in KindsOf(backend)]_vars
    /\ [](backend = "up" =>
             \A p \in InputPaths :
                 getinfo(files, _prefix, p).err # "RemoteConnectionError")

\* thread t is in a move(src, dst) whose copy is staged in an open commit,
\* src a file and dst absent, over a backend that serves
MoveCopying(t) ==
    /\ pc[t] = "commit" /\ cur[t].op = "move" /\ cur[t].phase = "copy"
    /\ backend = "up"
    /\ FileAt(files, _prefix, cur[t].path)
    /\ ~ExistsAt(files, _prefix, cur[t].path2)

\* thread t is between the two commits of a move: the commit of copy is
\* closed, the commit of remove holds the delete alone, and the repository,
\* as every thread sees it, holds both src and dst
MoveBetween(t) ==
    /\ pc'[t] = "commit" /\ cur'[t].op = "move" /\ cur'[t].phase = "remove"
    /\ cur'[t].commits = 2
    /\ staged'[t] = <<Stage(remove(_prefix, cur[t].path))>>
    /\ FileAt(files', _prefix, cur[t].path)
    /\ FileAt(files', _prefix, cur[t].path2)
    /\ files'[Stored(_prefix, cur[t].path2)] = files[Stored(_prefix, cur[t].path)]

\* C23: a commit holds the operation of one step of move, never copy and
\* delete together; when the commit of the copy of move(src, dst), src a file
\* and dst absent, ends, the move stands between its two commits with both
\* src and dst in the repository; and when the remove of a move fails, src
\* and dst are both still there.
C23_MoveTwoSessions ==
    /\ [](\A t \in Threads : Len(staged[t]) <= 1)
    /\ [][(MoveCopying("t1") /\ cur'["t1"] # cur["t1"]) => MoveBetween("t1")]_vars
    /\ [][(Returns("t1") /\ cur["t1"].op = "move" /\ cur["t1"].phase = "remove"
           /\ last'["t1"].err # "ok") =>
             /\ FileAt(files', _prefix, cur["t1"].path)
             /\ FileAt(files', _prefix, cur["t1"].path2)]_vars

\* C24: close() of a writable handle that is closed already opens no commit
\* and stages no put, and leaves the repository, with what the first close()
\* put there, as it was.
C24_SecondClose ==
    /\ [][hnd["t1"].st = "closed" =>
             ~(pc'["t1"] = "commit" /\ cur'["t1"].op = "close")]_vars
    /\ [][(Returns("t1") /\ last'["t1"].op = "close" /\ hnd["t1"].st = "closed"
           /\ mode_writing(hnd["t1"].mode)) =>
             /\ last'["t1"].commits = 0
             /\ staged' = staged
             /\ files' = files]_vars

C24_Witness ==
    /\ last["t1"].op = "close"
    /\ last["t1"].mode = Str1("w")
    /\ last["t1"].commits = 0
    /\ last["t1"].err = "ValueError"
    /\ hnd["t1"].st = "closed"
    /\ hnd["t1"].buf # <<>>
    /\ FileAt(files, _prefix, hnd["t1"].path)
    /\ files[Stored(_prefix, hnd["t1"].path)] = hnd["t1"].buf

====
